---------------------------- MODULE Spec2Model ----------------------------
(***************************************************************************)
(* A model of LogBook's journal engine: the daily document operations of   *)
(* pkg/journal (AppendToLog, GenerateSummaryIfMissing, ExtractSummary,     *)
(* ListJournalFilesByPeriod), the summary injector of pkg/oneline and the  *)
(* periodic reviews of pkg/review (ReviewWeek, ReviewMonth, ReviewYear).   *)
(*                                                                         *)
(* File contents are strings, handled as the Go code handles them: split   *)
(* on "\n", trimmed, matched by prefix and joined again.  Dates are day    *)
(* numbers (0 is Monday 0001-01-01 of the proleptic Gregorian calendar).   *)
(***************************************************************************)
EXTENDS Integers, Sequences, FiniteSets, TLC

VARIABLES
    file,      \* content of the daily journal file the document operations act on
    lastOp,    \* the last document operation: its name, inputs, result and calls
    appended,  \* the rendered entry lines of the AppendToLog calls made in a row
    nops,      \* number of operations done so far (bounded)
    dir,       \* the journal directory: the layout that names the daily files,
               \* and the daily files, name -> content
    reviews,   \* the review files: path -> content
    rev,       \* the last review run: its inputs and result
    period     \* the date-range computation of a review, step by step

vars == <<file, lastOp, appended, nops, dir, reviews, rev, period>>

docVars == <<file, lastOp, appended>>
reviewVars == <<dir, reviews, rev>>

-----------------------------------------------------------------------------
(* Bounds of the model. *)

\* lines after the title in an initial daily document
MaxBody == 3
\* document operations in one behaviour
MaxOps == 2
\* log entries appended in a row to one document
MaxAppends == 3
\* the years asked for are 2018 .. 2018 + YearSpan, and three century years
YearSpan == 9
\* the weeks asked for are -1 .. MaxWeek
MaxWeek == 55
\* daily files in the journal directory
MaxFiles == 3
\* reviews run in one behaviour
MaxReviews == 1

-----------------------------------------------------------------------------
(* Go's strings package, on TLC strings. *)

CharAt(s, i) == SubSeq(s, i, i)

\* unicode.IsSpace, restricted to the ASCII white space the model uses
IsSpace(c) == c \in {" ", "\t", "\n", "\r"}

HasPrefix(s, prefix) ==
    Len(s) >= Len(prefix) /\ SubSeq(s, 1, Len(prefix)) = prefix

HasSuffix(s, suffix) ==
    Len(s) >= Len(suffix) /\ SubSeq(s, Len(s) - Len(suffix) + 1, Len(s)) = suffix

TrimSuffix(s, suffix) ==
    IF HasSuffix(s, suffix) THEN SubSeq(s, 1, Len(s) - Len(suffix)) ELSE s

RECURSIVE FirstNonSpace(_, _)
FirstNonSpace(s, i) ==
    IF i > Len(s) \/ ~IsSpace(CharAt(s, i)) THEN i ELSE FirstNonSpace(s, i + 1)

RECURSIVE LastNonSpace(_, _)
LastNonSpace(s, j) ==
    IF j < 1 \/ ~IsSpace(CharAt(s, j)) THEN j ELSE LastNonSpace(s, j - 1)

TrimSpace(s) ==
    LET i == FirstNonSpace(s, 1)
    IN  IF i > Len(s) THEN "" ELSE SubSeq(s, i, LastNonSpace(s, Len(s)))

\* strings.Split(s, "\n"): always at least one element.  The pieces are cut
\* at the places of the "\n" from start on: one turn for each piece.
RECURSIVE SplitFrom(_, _, _)
SplitFrom(s, start, i) ==
    LET at == { j \in i..Len(s) : CharAt(s, j) = "\n" }
    IN  IF at = {} THEN <<SubSeq(s, start, Len(s))>>
        ELSE LET m == CHOOSE j \in at : \A k \in at : j <= k
             IN  <<SubSeq(s, start, m - 1)>> \o SplitFrom(s, m + 1, m + 1)

Split(s) == SplitFrom(s, 1, 1)

RECURSIVE Join(_, _)
Join(elems, sep) ==
    IF Len(elems) = 0 THEN ""
    ELSE IF Len(elems) = 1 THEN elems[1]
    ELSE elems[1] \o sep \o Join(Tail(elems), sep)

\* strings.Index(s, substr), 0-based, -1 when absent: the first place from i
\* on at which substr stands
IndexFrom(s, substr, i) ==
    LET at == { j \in i..(Len(s) - Len(substr)) : SubSeq(s, j + 1, j + Len(substr)) = substr }
    IN  IF at = {} THEN -1 ELSE CHOOSE j \in at : \A k \in at : j <= k

Index(s, substr) == IndexFrom(s, substr, 0)

\* lines[from:] of a Go slice with 0-based index from
SliceFrom(lines, from) == SubSeq(lines, from + 1, Len(lines))

\* lines[:to] of a Go slice with 0-based index to
SliceTo(lines, to) == SubSeq(lines, 1, to)


-----------------------------------------------------------------------------
(* Number formatting (fmt's %d and %02d, time's two- and four-digit fields). *)

Digit(d) == CharAt("0123456789", d + 1)

RECURSIVE Itoa(_)
Itoa(n) == IF n < 10 THEN Digit(n) ELSE Itoa(n \div 10) \o Digit(n % 10)

\* the two-digit fields, computed once
TwoDigits == [n \in 0..99 |-> IF n < 10 THEN "0" \o Digit(n) ELSE Itoa(n)]

Pad2(n) == TwoDigits[n]

-----------------------------------------------------------------------------
(* Go's time package, on day numbers: day 0 is Monday, January 1 of year 1. *)

Monday == 1
Thursday == 4

IsLeap(year) == year % 4 = 0 /\ (year % 100 # 0 \/ year % 400 = 0)

\* days from day 0 to January 1 of year
DaysSinceEpoch(year) ==
    LET y == year - 1 IN 365 * y + (y \div 4) - (y \div 100) + (y \div 400)

\* days of a non-leap year before the first of month (time's daysBefore table)
DaysBefore(month) ==
    <<0, 31, 59, 90, 120, 151, 181, 212, 243, 273, 304, 334, 365>>[month]

\* time.Date(year, month, day, 0, 0, 0, 0, UTC): month and day may be out of range
Date(year, month, day) ==
    LET m0 == month - 1
        y == year + (m0 \div 12)
        m == (m0 % 12) + 1
    IN  DaysSinceEpoch(y) + DaysBefore(m)
          + (IF IsLeap(y) /\ m >= 3 THEN 1 ELSE 0) + day - 1

\* days of a year before the first of month, in a leap year or not
DaysBeforeIn(month, leap) ==
    DaysBefore(month) + (IF leap /\ month >= 3 THEN 1 ELSE 0)

\* the month of each day of a year (days from 0), in a leap year or not
MonthOfYearDay ==
    [leap \in BOOLEAN |->
        [yday \in 0..(IF leap THEN 365 ELSE 364) |->
            CHOOSE m \in 1..12 :
                DaysBeforeIn(m, leap) <= yday /\ yday < DaysBeforeIn(m + 1, leap)]]

\* the year, month and day of t, computed from the day number
CivilOf(t) ==
    CHOOSE c \in { [year |-> y,
                    month |-> MonthOfYearDay[IsLeap(y)][t - DaysSinceEpoch(y)],
                    day |-> t - DaysSinceEpoch(y) + 1
                            - DaysBeforeIn(MonthOfYearDay[IsLeap(y)][t - DaysSinceEpoch(y)],
                                           IsLeap(y))] :
                     y \in { x \in ((t \div 366) + 1)..((t \div 365) + 1) :
                               DaysSinceEpoch(x) <= t /\ t < DaysSinceEpoch(x + 1) } } :
        TRUE

\* the days of the years the journal directories hold, and their year, month
\* and day, computed once
CalendarDays == Date(2024, 1, 1)..Date(2027, 1, 31)
Calendar == [t \in CalendarDays |-> CivilOf(t)]

Civil(t) == IF t \in CalendarDays THEN Calendar[t] ELSE CivilOf(t)

Year(t) == Civil(t).year

\* the day of the year, from 0
YearDay(t) == t - DaysSinceEpoch(Year(t))

Month(t) == Civil(t).month

Day(t) == Civil(t).day

Weekday(t) == (t + 1) % 7

AddDate(t, years, months, days) ==
    Date(Year(t) + years, Month(t) + months, Day(t) + days)

\* Time.ISOWeek: the year and the week of the Thursday of t's week
ISOWeek(t) ==
    LET d == Thursday - Weekday(t)
        thursday == t + (IF d = 4 THEN -3 ELSE d)
    IN  <<Year(thursday), (YearDay(thursday) \div 7) + 1>>

\* Month.String
MonthNames ==
    << "January", "February", "March", "April", "May", "June", "July",
       "August", "September", "October", "November", "December" >>

\* Time.Format("2006-01-02"), for years of four digits
FormatDate(t) == Itoa(Year(t)) \o "-" \o Pad2(Month(t)) \o "-" \o Pad2(Day(t))

\* Time.Format(layout) for the two layouts the model names daily files with
DefaultLayout == "2006-01-02"
Layouts == {DefaultLayout, "02.01.2006"}
Format(layout, t) ==
    IF layout = DefaultLayout THEN FormatDate(t)
    ELSE Pad2(Day(t)) \o "." \o Pad2(Month(t)) \o "." \o Itoa(Year(t))

IsDigits(s) == \A i \in 1..Len(s) : \E d \in 0..9 : CharAt(s, i) = Digit(d)

RECURSIVE Atoi(_)
Atoi(s) ==
    IF Len(s) = 0 THEN 0
    ELSE 10 * Atoi(SubSeq(s, 1, Len(s) - 1))
           + (CHOOSE d \in 0..9 : CharAt(s, Len(s)) = Digit(d))

\* time's daysIn(month, year)
DaysInMonth(m, year) == Date(year, m + 1, 1) - Date(year, m, 1)

\* time.Parse("2006-01-02", value): whether it parses, and the month it gives
ParseDate(value) ==
    IF /\ Len(value) = 10
       /\ CharAt(value, 5) = "-" /\ CharAt(value, 8) = "-"
       /\ IsDigits(SubSeq(value, 1, 4) \o SubSeq(value, 6, 7) \o SubSeq(value, 9, 10))
    THEN LET y == Atoi(SubSeq(value, 1, 4))
             m == Atoi(SubSeq(value, 6, 7))
             d == Atoi(SubSeq(value, 9, 10))
         IN  IF m \in 1..12 /\ d >= 1 /\ d <= DaysInMonth(m, y)
             THEN [ok |-> TRUE, month |-> m]
             ELSE [ok |-> FALSE, month |-> 0]
    ELSE [ok |-> FALSE, month |-> 0]

-----------------------------------------------------------------------------
(* pkg/review: the date range of a review. *)

\* the date ReviewWeek starts its search from: January 4 of the year
WeekProbe(year) == Date(year, 1, 4)

\* the guard of the first loop: the date lies before the requested week
WeekBehind(t, week, year) ==
    LET iso == ISOWeek(t)
    IN  iso[1] < year \/ (iso[1] = year /\ iso[2] < week)

\* the guard of the second loop: the date lies after the requested week
WeekAhead(t, week, year) ==
    LET iso == ISOWeek(t)
    IN  iso[1] > year \/ (iso[1] = year /\ iso[2] > week)

\* a slip: weeks taken to start on Sunday
IsWeekStartSunday(t) == Weekday(t) = 0

\* the test that ends the third loop
IsWeekStart(t) == Weekday(t) = Monday

\* endDate of a week that starts on startDate
WeekEnd(startDate) == AddDate(startDate, 0, 0, 6)

RECURSIVE WeekForward(_, _, _)
WeekForward(t, week, year) ==
    IF WeekBehind(t, week, year) THEN WeekForward(AddDate(t, 0, 0, 7), week, year) ELSE t

RECURSIVE WeekBackward(_, _, _)
WeekBackward(t, week, year) ==
    IF WeekAhead(t, week, year) THEN WeekBackward(AddDate(t, 0, 0, -7), week, year) ELSE t

RECURSIVE WeekStartOf(_)
WeekStartOf(t) == IF ~IsWeekStart(t) THEN WeekStartOf(AddDate(t, 0, 0, -1)) ELSE t

\* startDate and endDate of ReviewWeek
WeekRange(week, year) ==
    LET dateInTargetWeek == WeekBackward(WeekForward(WeekProbe(year), week, year), week, year)
        startDate == WeekStartOf(dateInTargetWeek)
    IN  [start |-> startDate, end |-> WeekEnd(startDate)]

\* a lookup that also takes the three-letter abbreviation of a month
MonthNumAbbrev(month) ==
    IF \E m \in 1..12 : month \in {MonthNames[m], SubSeq(MonthNames[m], 1, 3)}
    THEN CHOOSE m \in 1..12 : month \in {MonthNames[m], SubSeq(MonthNames[m], 1, 3)}
    ELSE 0

\* the month number ReviewMonth's map gives for a name; 0 for any other string
MonthNum(month) ==
    IF \E m \in 1..12 : MonthNames[m] = month
    THEN CHOOSE m \in 1..12 : MonthNames[m] = month
    ELSE 0

ErrMonth(month) == "invalid month name: " \o month

\* a slip: every month taken to have 31 days
MonthEnd31(startDate) == AddDate(startDate, 0, 0, 30)

\* endDate of a month that starts on startDate
MonthEnd(startDate) == AddDate(startDate, 0, 1, -1)

\* startDate and endDate of ReviewMonth, or its error
MonthRange(month, year) ==
    IF MonthNum(month) = 0
    THEN [err |-> ErrMonth(month), start |-> 0, end |-> 0]
    ELSE LET startDate == Date(year, MonthNum(month), 1)
         IN  [err |-> "", start |-> startDate, end |-> MonthEnd(startDate)]

\* startDate and endDate of ReviewYear
YearRange(year) == [start |-> Date(year, 1, 1), end |-> Date(year, 12, 31)]

-----------------------------------------------------------------------------
(* pkg/journal: ExtractSummary. *)

\* a slip: the scan stopped by the LOG heading only
RECURSIVE ExtractLoopLogOnly(_, _, _, _)
ExtractLoopLogOnly(lines, i, readingSummary, acc) ==
    IF i > Len(lines) THEN acc
    ELSE LET trimmedLine == TrimSpace(lines[i])
         IN  IF HasPrefix(trimmedLine, "# LOG")
             THEN acc
             ELSE IF trimmedLine = ""
             THEN (IF readingSummary THEN acc
                   ELSE ExtractLoopLogOnly(lines, i + 1, readingSummary, acc))
             ELSE IF HasPrefix(trimmedLine, "<!--")
             THEN ExtractLoopLogOnly(lines, i + 1, readingSummary, acc)
             ELSE IF ~readingSummary /\ HasPrefix(trimmedLine, "#")
             THEN ExtractLoopLogOnly(lines, i + 1, readingSummary, acc)
             ELSE ExtractLoopLogOnly(lines, i + 1, TRUE, Append(acc, trimmedLine))

\* a slip: an empty line below the paragraph skipped like one above it
RECURSIVE ExtractLoopAllParagraphs(_, _, _, _)
ExtractLoopAllParagraphs(lines, i, readingSummary, acc) ==
    IF i > Len(lines) THEN acc
    ELSE LET trimmedLine == TrimSpace(lines[i])
         IN  IF HasPrefix(trimmedLine, "# LOG") \/ HasPrefix(trimmedLine, "# One-line note")
             THEN acc
             ELSE IF trimmedLine = ""
             THEN ExtractLoopAllParagraphs(lines, i + 1, readingSummary, acc)
             ELSE IF HasPrefix(trimmedLine, "<!--")
             THEN ExtractLoopAllParagraphs(lines, i + 1, readingSummary, acc)
             ELSE IF ~readingSummary /\ HasPrefix(trimmedLine, "#")
             THEN ExtractLoopAllParagraphs(lines, i + 1, readingSummary, acc)
             ELSE ExtractLoopAllParagraphs(lines, i + 1, TRUE, Append(acc, trimmedLine))

\* The scan of ExtractSummary from 1-based line i on; acc is summaryLines.
RECURSIVE ExtractLoop(_, _, _, _)
ExtractLoop(lines, i, readingSummary, acc) ==
    IF i > Len(lines) THEN acc
    ELSE LET trimmedLine == TrimSpace(lines[i])
         IN  IF HasPrefix(trimmedLine, "# LOG") \/ HasPrefix(trimmedLine, "# One-line note")
             THEN acc
             ELSE IF trimmedLine = ""
             THEN (IF readingSummary THEN acc
                   ELSE ExtractLoop(lines, i + 1, readingSummary, acc))
             ELSE IF HasPrefix(trimmedLine, "<!--")
             THEN ExtractLoop(lines, i + 1, readingSummary, acc)
             ELSE IF ~readingSummary /\ HasPrefix(trimmedLine, "#")
             THEN ExtractLoop(lines, i + 1, readingSummary, acc)
             ELSE ExtractLoop(lines, i + 1, TRUE, Append(acc, trimmedLine))

\* ExtractSummary on the content of a file that exists
ExtractSummary(content) ==
    LET summaryLines == ExtractLoop(Split(content), 2, FALSE, <<>>)
    IN  IF Len(summaryLines) > 0 THEN Join(summaryLines, " ") ELSE ""

-----------------------------------------------------------------------------
(* pkg/journal: AppendToLog. *)

\* 0-based index of the first line that starts with "# LOG", -1 when none
RECURSIVE LogChapterFrom(_, _)
LogChapterFrom(lines, i) ==
    IF i > Len(lines) THEN -1
    ELSE IF HasPrefix(lines[i], "# LOG") THEN i - 1
    ELSE LogChapterFrom(lines, i + 1)

\* a slip: the index stays at the top of the file when no line matches
LogChapterIndexOrTop(lines) ==
    IF LogChapterFrom(lines, 1) = -1 THEN 0 ELSE LogChapterFrom(lines, 1)

LogChapterIndex(lines) == LogChapterFrom(lines, 1)

\* the two loops that move insertIndex (0-based) past empty, then non-empty lines
RECURSIVE SkipEmptyLines(_, _)
SkipEmptyLines(lines, idx) ==
    IF idx < Len(lines) /\ TrimSpace(lines[idx + 1]) = ""
    THEN SkipEmptyLines(lines, idx + 1) ELSE idx

RECURSIVE SkipEntryLines(_, _)
SkipEntryLines(lines, idx) ==
    IF idx < Len(lines) /\ TrimSpace(lines[idx + 1]) # ""
    THEN SkipEntryLines(lines, idx + 1) ELSE idx

\* a slip: the entry goes right below the heading
InsertIndexBelowHeading(lines, logChapterIndex) == logChapterIndex + 1

InsertIndex(lines, logChapterIndex) ==
    SkipEntryLines(lines, SkipEmptyLines(lines, logChapterIndex + 1))

\* the log entry rendered by the default entry template: "15:04 entry"
RenderLogEntry(entry, timestamp) ==
    Pad2(timestamp[1]) \o ":" \o Pad2(timestamp[2]) \o " " \o entry

ErrLogNotFound == "LOG chapter not found in file"

\* AppendToLog on the content of a readable file: the error and the content left
AppendToLogFile(content, entry, timestamp) ==
    LET lines == Split(content)
        logChapterIndex == LogChapterIndex(lines)
    IN  IF logChapterIndex = -1
        THEN [err |-> ErrLogNotFound, content |-> content]
        ELSE LET insertIndex == InsertIndex(lines, logChapterIndex)
                 newLines == SliceTo(lines, insertIndex)
                                \o <<RenderLogEntry(entry, timestamp)>>
                                \o SliceFrom(lines, insertIndex)
                 modifiedContent == Join(newLines, "\n")
             IN  [err |-> "",
                  content |-> IF HasSuffix(modifiedContent, "\n")
                              THEN modifiedContent
                              ELSE modifiedContent \o "\n"]

-----------------------------------------------------------------------------
(* pkg/journal: GenerateSummaryIfMissing; pkg/oneline: saveSummaryToFile. *)

\* the scan that decides isSummaryMissing, from 1-based line i on
RECURSIVE SummaryMissingFrom(_, _)
SummaryMissingFrom(lines, i) ==
    IF i > Len(lines) THEN TRUE
    ELSE LET trimmed == TrimSpace(lines[i])
         IN  IF trimmed = "" THEN SummaryMissingFrom(lines, i + 1)
             ELSE IF HasPrefix(trimmed, "<!--") THEN SummaryMissingFrom(lines, i + 1)
             ELSE IF HasPrefix(trimmed, "#") THEN TRUE
             ELSE FALSE

IsSummaryMissing(lines) == SummaryMissingFrom(lines, 2)

\* the text handed to the summarizer: the lines after the title, cut at the
\* first "## One-line note", trimmed
ContentToSummarize(lines) ==
    LET all == Join(SliceFrom(lines, 1), "\n")
        idx == Index(all, "## One-line note")
    IN  TrimSpace(IF idx # -1 THEN SubSeq(all, 1, idx) ELSE all)

\* a slip: no blank line written after the summary
InjectSummaryNoBlank(lines, finalSummary) ==
    LET hasComment == Len(lines) > 1 /\ HasPrefix(TrimSpace(lines[2]), "<!--")
        startIdx == SkipEmptyLines(lines, IF hasComment THEN 2 ELSE 1)
    IN  lines[1] \o "\n"
        \o (IF hasComment THEN lines[2] \o "\n" ELSE "")
        \o TrimSpace(finalSummary) \o "\n"
        \o (IF startIdx < Len(lines) THEN Join(SliceFrom(lines, startIdx), "\n") ELSE "")

\* the insertion of finalSummary after the title and an HTML comment on line 1
InjectSummary(lines, finalSummary) ==
    LET hasComment == Len(lines) > 1 /\ HasPrefix(TrimSpace(lines[2]), "<!--")
        startIdx == SkipEmptyLines(lines, IF hasComment THEN 2 ELSE 1)
    IN  lines[1] \o "\n"
        \o (IF hasComment THEN lines[2] \o "\n" ELSE "")
        \o TrimSpace(finalSummary) \o "\n\n"
        \o (IF startIdx < Len(lines) THEN Join(SliceFrom(lines, startIdx), "\n") ELSE "")

\* the errors returned, each wrapping its cause: the error of the summarizer,
\* the error of the scanner ("%!w(<nil>)" is how a nil error is formatted,
\* which is what the scanner has at the end of the input)
ErrAI(cause) == "failed to generate summary with AI: " \o cause
ErrManual(cause) == "failed to read manual summary: " \o cause

\* GenerateSummaryIfMissing on the content of a readable file.
\* summarizer: [present, fails, summary]; reader: [ok, line] is what the one
\* bufio.Scanner.Scan() on it gives.  ai: the texts handed to the summarizer;
\* reads: the number of reads of the manual input.
GenerateSummaryIfMissingFile(content, summarizer, reader) ==
    LET lines == Split(content)
        none == [err |-> "", content |-> content, ai |-> <<>>, reads |-> 0]
    IN  IF ~IsSummaryMissing(lines) THEN none
        ELSE IF summarizer.present
        THEN LET text == ContentToSummarize(lines)
             IN  IF summarizer.fails
                 THEN [none EXCEPT !.err = ErrAI(summarizer.cause), !.ai = <<text>>]
                 ELSE [none EXCEPT !.content = InjectSummary(lines, summarizer.summary),
                                   !.ai = <<text>>]
        ELSE IF ~reader.ok
        THEN [none EXCEPT !.err = ErrManual(reader.cause), !.reads = 1]
        ELSE IF TrimSpace(reader.line) = ""
        THEN [none EXCEPT !.reads = 1]
        ELSE [none EXCEPT !.content = InjectSummary(lines, reader.line), !.reads = 1]

\* a slip: the summary written above the HTML comment
saveSummaryAboveComment(content, summary) ==
    LET lines == Split(content)
        hasComment == Len(lines) > 1 /\ HasPrefix(TrimSpace(lines[2]), "<!--")
        startIdx == SkipEmptyLines(lines, IF hasComment THEN 2 ELSE 1)
    IN  lines[1] \o "\n"
        \o TrimSpace(summary) \o "\n\n"
        \o (IF hasComment THEN lines[2] \o "\n" ELSE "")
        \o (IF startIdx < Len(lines) THEN Join(SliceFrom(lines, startIdx), "\n") ELSE "")

\* a slip: nothing written into a file that has a summary
saveSummaryIfMissing(content, summary) ==
    LET lines == Split(content)
        hasComment == Len(lines) > 1 /\ HasPrefix(TrimSpace(lines[2]), "<!--")
        startIdx == SkipEmptyLines(lines, IF hasComment THEN 2 ELSE 1)
    IN  IF ExtractSummary(content) # "" THEN content
        ELSE lines[1] \o "\n"
             \o (IF hasComment THEN lines[2] \o "\n" ELSE "")
             \o TrimSpace(summary) \o "\n\n"
             \o (IF startIdx < Len(lines) THEN Join(SliceFrom(lines, startIdx), "\n") ELSE "")

\* saveSummaryToFile on the content of a readable file: the content written
saveSummaryToFile(content, summary) ==
    LET lines == Split(content)
        hasComment == Len(lines) > 1 /\ HasPrefix(TrimSpace(lines[2]), "<!--")
        startIdx == SkipEmptyLines(lines, IF hasComment THEN 2 ELSE 1)
    IN  lines[1] \o "\n"
        \o (IF hasComment THEN lines[2] \o "\n" ELSE "")
        \o TrimSpace(summary) \o "\n\n"
        \o (IF startIdx < Len(lines) THEN Join(SliceFrom(lines, startIdx), "\n") ELSE "")

-----------------------------------------------------------------------------
(* pkg/journal: ListJournalFilesByPeriod; pkg/review: the three reviews. *)

\* the names of the daily files of the calendar's days, computed once
DailyNames == [l \in Layouts |-> [t \in CalendarDays |-> Format(l, t) \o ".md"]]

\* the name of the daily file of a date (cfg.DailyFileName rendered)
DailyFileName(layout, t) ==
    IF t \in CalendarDays THEN DailyNames[layout][t] ELSE Format(layout, t) \o ".md"

\* the turns of the loop for d := startDate; !d.After(endDate); d = d.AddDate(0, 0, 1)
\* that start at d and are at most span: the names of the daily files that
\* exist, in the order the loop meets them.  The turns are taken half by half.
RECURSIVE ListJournalFilesFrom(_, _, _, _, _)
ListJournalFilesFrom(layout, files, d, endDate, span) ==
    IF d > endDate \/ span <= 0 THEN <<>>
    ELSE IF span = 1
    THEN (IF DailyFileName(layout, d) \in DOMAIN files
          THEN <<DailyFileName(layout, d)>> ELSE <<>>)
    ELSE ListJournalFilesFrom(layout, files, d, endDate, span \div 2)
         \o ListJournalFilesFrom(layout, files, AddDate(d, 0, 0, span \div 2),
                                 endDate, span - (span \div 2))

\* a slip: the last day of the period left out
ListJournalFilesBeforeEnd(layout, files, startDate, endDate) ==
    ListJournalFilesFrom(layout, files, startDate, endDate - 1, endDate - startDate)

\* the names of the daily files that exist, from startDate to endDate
ListJournalFilesByPeriod(layout, files, startDate, endDate) ==
    ListJournalFilesFrom(layout, files, startDate, endDate, endDate - startDate + 1)

\* the loop that writes one "### date / summary" pair per journal file
RECURSIVE DailySummaries(_, _)
DailySummaries(files, journalFiles) ==
    IF journalFiles = <<>> THEN ""
    ELSE "### " \o TrimSuffix(Head(journalFiles), ".md") \o "\n"
           \o ExtractSummary(files[Head(journalFiles)]) \o "\n\n"
           \o DailySummaries(files, Tail(journalFiles))

\* a slip: the sentinel written, and the heading too
DailyBodyWithHeading(files, journalFiles, sentinel) ==
    IF Len(journalFiles) = 0
    THEN "## Daily Summaries\n\n" \o sentinel
    ELSE "## Daily Summaries\n\n" \o DailySummaries(files, journalFiles)

\* what a weekly or monthly review holds after its summary
DailyBody(files, journalFiles, sentinel) ==
    IF Len(journalFiles) = 0
    THEN sentinel
    ELSE "## Daily Summaries\n\n" \o DailySummaries(files, journalFiles)

\* filesByMonth[month]: the journal files whose name parses to a date of month
RECURSIVE FilesOfMonth(_, _)
FilesOfMonth(journalFiles, month) ==
    IF journalFiles = <<>> THEN <<>>
    ELSE LET parsedDate == ParseDate(TrimSuffix(Head(journalFiles), ".md"))
         IN  (IF parsedDate.ok /\ parsedDate.month = month
              THEN <<Head(journalFiles)>> ELSE <<>>)
             \o FilesOfMonth(Tail(journalFiles), month)

\* the loop that writes one "- **date**: summary" line per file of a month
RECURSIVE MonthBullets(_, _)
MonthBullets(files, monthFiles) ==
    IF monthFiles = <<>> THEN ""
    ELSE "- **" \o TrimSuffix(Head(monthFiles), ".md") \o "**: "
           \o ExtractSummary(files[Head(monthFiles)]) \o "\n"
           \o MonthBullets(files, Tail(monthFiles))

\* a slip: the months written from December down to January
RECURSIVE MonthlySummariesDown(_, _, _)
MonthlySummariesDown(files, journalFiles, month) ==
    IF month > 12 THEN ""
    ELSE LET monthFiles == FilesOfMonth(journalFiles, 13 - month)
         IN  (IF Len(monthFiles) = 0 THEN ""
              ELSE "### " \o MonthNames[13 - month] \o "\n\n"
                     \o MonthBullets(files, monthFiles) \o "\n")
             \o MonthlySummariesDown(files, journalFiles, month + 1)

\* the loop over the months, from month to December
RECURSIVE MonthlySummaries(_, _, _)
MonthlySummaries(files, journalFiles, month) ==
    IF month > 12 THEN ""
    ELSE LET monthFiles == FilesOfMonth(journalFiles, month)
         IN  (IF Len(monthFiles) = 0 THEN ""
              ELSE "### " \o MonthNames[month] \o "\n\n"
                     \o MonthBullets(files, monthFiles) \o "\n")
             \o MonthlySummaries(files, journalFiles, month + 1)

\* what a yearly review holds after its summary
YearlyBody(files, journalFiles) ==
    IF Len(journalFiles) = 0
    THEN "No journal entries found for this year.\n\n"
    ELSE "## Monthly Summaries\n\n" \o MonthlySummaries(files, journalFiles, 1)

\* a slip: the body written although the summary failed
WriteReviewDespiteError(path, skeleton, body, what, summarizer, reader) ==
    LET g == GenerateSummaryIfMissingFile(skeleton, summarizer, reader)
    IN  IF g.err # ""
        THEN [err |-> "failed to generate summary for " \o what \o " review: " \o g.err,
              path |-> path, content |-> g.content \o body, ai |-> g.ai, reads |-> g.reads]
        ELSE [err |-> "", path |-> path, content |-> g.content \o body,
              ai |-> g.ai, reads |-> g.reads]

\* what the three reviews share: the skeleton is written, its summary is
\* generated if missing (an error ends the review there), the file is read
\* again, the body is added to it and it is written.
\* content is what the review file holds in the end.
WriteReview(path, skeleton, body, what, summarizer, reader) ==
    LET g == GenerateSummaryIfMissingFile(skeleton, summarizer, reader)
    IN  IF g.err # ""
        THEN [err |-> "failed to generate summary for " \o what \o " review: " \o g.err,
              path |-> path, content |-> g.content, ai |-> g.ai, reads |-> g.reads]
        ELSE [err |-> "", path |-> path, content |-> g.content \o body,
              ai |-> g.ai, reads |-> g.reads]

ReviewWeekFile(layout, files, week, year, summarizer, reader) ==
    LET range == WeekRange(week, year)
        journalFiles == ListJournalFilesByPeriod(layout, files, range.start, range.end)
    IN  WriteReview("review_week_" \o Itoa(year) \o "_" \o Itoa(week) \o ".md",
                    "# Weekly Review - Week " \o Itoa(week) \o ", " \o Itoa(year) \o "\n\n",
                    DailyBody(files, journalFiles, "No journal entries found for this week.\n\n"),
                    "weekly", summarizer, reader)

\* ReviewMonth with a month name its map holds
ReviewMonthFile(layout, files, month, year, summarizer, reader) ==
    LET range == MonthRange(month, year)
        journalFiles == ListJournalFilesByPeriod(layout, files, range.start, range.end)
    IN  WriteReview("review_month_" \o month \o "_" \o Itoa(year) \o ".md",
                    "# Monthly Review - " \o month \o " " \o Itoa(year) \o "\n\n",
                    DailyBody(files, journalFiles, "No journal entries found for this month.\n\n"),
                    "monthly", summarizer, reader)

ReviewYearFile(layout, files, year, summarizer, reader) ==
    LET range == YearRange(year)
        journalFiles == ListJournalFilesByPeriod(layout, files, range.start, range.end)
    IN  WriteReview("review_year_" \o Itoa(year) \o ".md",
                    "# Yearly Review - " \o Itoa(year) \o "\n\n",
                    YearlyBody(files, journalFiles),
                    "yearly", summarizer, reader)

-----------------------------------------------------------------------------
(* pkg/oneline: GetPastSummaries. *)

\* the dates GetPastSummaries looks at, in the order it does: 1 week, 1 month
\* and 6 months before targetDate, then 1, 2 and 3 years before it
PastDates(targetDate) ==
    << AddDate(targetDate, 0, 0, -7),
       AddDate(targetDate, 0, -1, 0),
       AddDate(targetDate, 0, -6, 0),
       AddDate(targetDate, -1, 0, 0),
       AddDate(targetDate, -2, 0, 0),
       AddDate(targetDate, -3, 0, 0) >>

\* 0-based number of the line after the first "# LOG" line, -1 when none
RECURSIVE LogSectionStartFrom(_, _)
LogSectionStartFrom(lines, i) ==
    IF i > Len(lines) THEN -1
    ELSE IF HasPrefix(TrimSpace(lines[i]), "# LOG") THEN i
    ELSE LogSectionStartFrom(lines, i + 1)

LogSectionStart(lines) == LogSectionStartFrom(lines, 1)

\* a slip: the summary of a file that has one not returned
getSummaryNeverFound(files, fileName, summarizer) ==
    [summary |-> "missing", files |-> files, ai |-> <<>>]

\* getSummaryWithAIFallback on the file fileName of the directory: the summary
\* returned, the files of the directory afterwards, the texts handed to the
\* summarizer
getSummaryWithAIFallback(files, fileName, summarizer) ==
    LET missing == [summary |-> "missing", files |-> files, ai |-> <<>>]
    IN  IF fileName \notin DOMAIN files THEN missing
        ELSE IF ExtractSummary(files[fileName]) # ""
        THEN [missing EXCEPT !.summary = ExtractSummary(files[fileName])]
        ELSE IF Len(files[fileName]) = 0 \/ ~summarizer.present THEN missing
        ELSE LET lines == Split(files[fileName])
                 logSectionStart == LogSectionStart(lines)
                 contentToSummarize ==
                     TrimSpace(Join(SliceFrom(lines, logSectionStart), "\n"))
             IN  IF logSectionStart = -1 \/ logSectionStart >= Len(lines) THEN missing
                 ELSE IF Len(contentToSummarize) = 0 THEN missing
                 ELSE IF summarizer.fails \/ summarizer.summary = ""
                 THEN [missing EXCEPT !.ai = <<contentToSummarize>>]
                 ELSE [summary |-> summarizer.summary,
                       files |-> [files EXCEPT ![fileName] =
                                     saveSummaryToFile(files[fileName], summarizer.summary)],
                       ai |-> <<contentToSummarize>>]

\* the turns of the two loops of GetPastSummaries from the i-th date on;
\* acc: the map built so far, the files, the texts handed to the summarizer
RECURSIVE PastSummariesFrom(_, _, _, _, _)
PastSummariesFrom(layout, dates, i, summarizer, acc) ==
    IF i > Len(dates) THEN acc
    ELSE \* the turn's result is computed once
         LET g == CHOOSE x \in {getSummaryWithAIFallback(acc.files,
                                    DailyFileName(layout, dates[i]), summarizer)} : TRUE
             dateKey == FormatDate(dates[i])
         IN  PastSummariesFrom(layout, dates, i + 1, summarizer,
                 [summaries |-> [k \in DOMAIN acc.summaries \cup {dateKey} |->
                                    IF k = dateKey THEN g.summary ELSE acc.summaries[k]],
                  files |-> g.files,
                  ai |-> acc.ai \o g.ai])

GetPastSummaries(layout, files, targetDate, summarizer) ==
    PastSummariesFrom(layout, PastDates(targetDate), 1, summarizer,
                      [summaries |-> <<>>, files |-> files, ai |-> <<>>])

-----------------------------------------------------------------------------
(* pkg/oneline: EmbedOneLineNotes. *)

\* the order of the bytes that dateKey strings are made of
ByteRank(c) ==
    CHOOSE r \in 1..11 : CharAt("-0123456789", r) = c

\* a < b for strings of those bytes, as sort.Strings compares them
RECURSIVE StringLess(_, _)
StringLess(a, b) ==
    IF Len(b) = 0 THEN FALSE
    ELSE IF Len(a) = 0 THEN TRUE
    ELSE IF CharAt(a, 1) # CharAt(b, 1) THEN ByteRank(CharAt(a, 1)) < ByteRank(CharAt(b, 1))
    ELSE StringLess(SubSeq(a, 2, Len(a)), SubSeq(b, 2, Len(b)))

\* the keys sorted by sort.Strings and then reversed: the greatest first
RECURSIVE SortedReversed(_)
SortedReversed(keys) ==
    IF keys = {} THEN <<>>
    ELSE LET top == CHOOSE x \in keys : \A y \in keys \ {x} : StringLess(y, x)
         IN  <<top>> \o SortedReversed(keys \ {top})

\* one line "* [[dateKey]]: summary" for each date of dates, in that order
RECURSIVE OneLineNotes(_, _)
OneLineNotes(summaries, dates) ==
    IF Len(dates) = 0 THEN ""
    ELSE "* [[" \o dates[1] \o "]]: " \o summaries[dates[1]] \o "\n"
         \o OneLineNotes(summaries, Tail(dates))

\* endOfSection: the loop over the lines after the section heading, from
\* the i-th on; rest is content[afterSection:]
RECURSIVE EndOfSectionFrom(_, _, _, _, _)
EndOfSectionFrom(content, afterSection, rest, lines, i) ==
    IF i > Len(lines) THEN afterSection
    ELSE IF HasPrefix(TrimSpace(lines[i]), "#")
    THEN afterSection + Index(rest, TrimSpace(lines[i]))
    ELSE IF i = Len(lines) THEN Len(content)
    ELSE EndOfSectionFrom(content, afterSection, rest, lines, i + 1)

ErrNoSection(filePath) == "\"One-line note\" section not found in file " \o filePath

\* EmbedOneLineNotes on the content of a readable file: the error, and what
\* the file holds afterwards
EmbedOneLineNotes(filePath, content, summaries) ==
    LET oneLineNoteSection == "# One-line note\n"
        idx == Index(content, oneLineNoteSection)
        afterSection == idx + Len(oneLineNoteSection)
        rest == SubSeq(content, afterSection + 1, Len(content))
        endOfSection == EndOfSectionFrom(content, afterSection, rest, Split(rest), 1)
    IN  IF idx = -1 THEN [err |-> ErrNoSection(filePath), content |-> content]
        ELSE [err |-> "",
              content |-> SubSeq(content, 1, afterSection)
                          \o OneLineNotes(summaries, SortedReversed(DOMAIN summaries)) \o "\n"
                          \o SubSeq(content, endOfSection + 1, Len(content))]

-----------------------------------------------------------------------------
(* pkg/journal: CreateDailyJournalFile, FinalizeDailyFile; the log command. *)

\* Weekday.String, from Sunday
WeekdayNames ==
    << "Sunday", "Monday", "Tuesday", "Wednesday", "Thursday", "Friday", "Saturday" >>

\* Time.Format("Jan 02 2006 Monday")
FormatTitle(t) ==
    SubSeq(MonthNames[Month(t)], 1, 3) \o " " \o Pad2(Day(t)) \o " " \o Itoa(Year(t))
    \o " " \o WeekdayNames[Weekday(t) + 1]

\* templateContent of CreateDailyJournalFile
DailyTemplate(date) ==
    "# " \o FormatTitle(date)
    \o "\n<!-- add today summary below this line. If missing, the AI will generate one for you according to configuration file -->"
    \o "\n\n# One-line note\n\n# LOG\n\n"

\* a slip: the file written anew although it is there
CreateDailyJournalFileAnew(layout, files, date) ==
    LET fileName == DailyFileName(layout, date)
    IN  [path |-> fileName, created |-> TRUE,
         files |-> [n \in DOMAIN files \cup {fileName} |->
                       IF n = fileName THEN DailyTemplate(date) ELSE files[n]]]

\* CreateDailyJournalFile with a valid configuration: the path returned,
\* whether the file was created, the files of the directory afterwards
CreateDailyJournalFile(layout, files, date) ==
    LET fileName == DailyFileName(layout, date)
    IN  IF fileName \in DOMAIN files
        THEN [path |-> fileName, created |-> FALSE, files |-> files]
        ELSE [path |-> fileName, created |-> TRUE,
              files |-> [n \in DOMAIN files \cup {fileName} |->
                            IF n = fileName THEN DailyTemplate(date) ELSE files[n]]]

\* FinalizeDailyFile: the past summaries gathered (files of past days may get
\* a generated summary), then embedded in the file at filePath
Finalized(past, e) ==
    [err |-> IF e.err = "" THEN ""
             ELSE "failed to embed one-line notes: " \o e.err,
     files |-> [past.files EXCEPT ![e.path] = e.content],
     ai |-> past.ai]

\* the notes embedded in the file of the day, past: what GetPastSummaries gave
EmbedPast(filePath, past) ==
    Finalized(past, [path |-> filePath] @@
                    EmbedOneLineNotes(filePath, past.files[filePath], past.summaries))

FinalizeDailyFile(layout, files, filePath, date, summarizer) ==
    EmbedPast(filePath, GetPastSummaries(layout, files, date, summarizer))

\* the log command at the time of day clock of the day now: the daily file
\* created or got, the entry appended, the file finalized; the first error
\* ends the command.  step: how far the command got; logged: what the
\* daily file held when AppendToLog returned.
LogFinalized(c, a, f) ==
    [err |-> f.err, step |-> "finalize", path |-> c.path, created |-> c.created,
     logged |-> a.content, files |-> f.files, ai |-> f.ai]

\* the steps after AppendToLog; c: what CreateDailyJournalFile gave, a: what
\* AppendToLog gave
LogAppended(layout, now, summarizer, c, a) ==
    IF a.err # ""
    THEN [err |-> a.err, step |-> "append", path |-> c.path, created |-> c.created,
          logged |-> a.content, files |-> c.files, ai |-> <<>>]
    ELSE LogFinalized(c, a, FinalizeDailyFile(layout, [c.files EXCEPT ![c.path] = a.content],
                                              c.path, now, summarizer))

\* the steps after CreateDailyJournalFile
LogCreated(layout, now, clock, entry, summarizer, c) ==
    LogAppended(layout, now, summarizer, c, AppendToLogFile(c.files[c.path], entry, clock))

LogCommand(layout, files, now, clock, entry, summarizer) ==
    LogCreated(layout, now, clock, entry, summarizer,
               CreateDailyJournalFile(layout, files, now))

-----------------------------------------------------------------------------
(* The daily document and the operations on it. *)

\* the title line of the daily template ("# " and the date)
Title == "# Oct 26"

\* the lines an initial document is made of, after its title
BodyLines ==
    { "",
      "<!-- c -->",
      "# One-line note",
      "# LOG",
      "## Notes",
      " ran " }

InitialDocs ==
    { Join(<<Title>> \o body, "\n") :
        body \in UNION { [1..n -> BodyLines] : n \in 0..MaxBody } }

\* the entries of the log command, with their time of day <<hour, minute>>:
\* the second is earlier in the day than the first
LogInputs == { <<"tea", <<14, 30>>>>, <<"nap", <<7, 5>>>> }

\* what a summarizer or a person may answer
SummaryTexts == { " calm ", "", "wet\ndry", "# Sum" }

Summarizers ==
    { [present |-> FALSE, fails |-> FALSE, summary |-> "", cause |-> ""],
      [present |-> TRUE, fails |-> TRUE, summary |-> "", cause |-> "agent down"] }
    \cup { [present |-> TRUE, fails |-> FALSE, summary |-> t, cause |-> ""] : t \in SummaryTexts }

\* one line of manual input (without its line end), or a failing read
Readers ==
    { [ok |-> FALSE, line |-> "", cause |-> "%!w(<nil>)"] }
    \cup { [ok |-> TRUE, line |-> t, cause |-> ""] : t \in {"calm", " "} }

NoOp == [op |-> "none", pre |-> "", arg |-> "", err |-> "", ai |-> <<>>, reads |-> 0]

AppendStep ==
    /\ \E in \in LogInputs :
         LET r == AppendToLogFile(file, in[1], in[2])
             line == RenderLogEntry(in[1], in[2])
         IN  /\ file' = r.content
             /\ lastOp' = [NoOp EXCEPT !.op = "append", !.pre = file,
                                       !.arg = line, !.err = r.err]
             /\ appended' = IF r.err = "" THEN Append(appended, line) ELSE appended
    /\ nops' = nops + 1
    /\ UNCHANGED <<dir, reviews, rev, period>>

AppendToLog == nops < MaxOps /\ AppendStep

\* the log command run again and again on the same daily file
AppendToLogAgain == nops < MaxAppends /\ AppendStep

GenerateSummaryIfMissing ==
    /\ nops < MaxOps
    /\ \E summarizer \in Summarizers, reader \in Readers :
         \* the reader is not looked at when a summarizer is given
         /\ summarizer.present => ~reader.ok
         /\ LET r == GenerateSummaryIfMissingFile(file, summarizer, reader)
            IN  /\ file' = r.content
                /\ lastOp' = [op |-> "generate", pre |-> file,
                              arg |-> IF summarizer.present THEN summarizer.summary
                                      ELSE reader.line,
                              err |-> r.err, ai |-> r.ai, reads |-> r.reads]
                /\ appended' = IF r.content = file THEN appended ELSE <<>>
    /\ nops' = nops + 1
    /\ UNCHANGED <<dir, reviews, rev, period>>

SaveSummaryToFile ==
    /\ nops < MaxOps
    /\ \E summary \in {" calm ", "wet\ndry"} :
         /\ file' = saveSummaryToFile(file, summary)
         \* prev: the operation before this one, on what file, with what summary
         /\ lastOp' = [op |-> "save", pre |-> file, arg |-> summary,
                       err |-> "", ai |-> <<>>, reads |-> 0,
                       prev |-> [op |-> lastOp.op, pre |-> lastOp.pre, arg |-> lastOp.arg]]
    /\ appended' = <<>>
    /\ nops' = nops + 1
    /\ UNCHANGED <<dir, reviews, rev, period>>

Idle == [op |-> "none"]
NoDir == [layout |-> DefaultLayout, files |-> <<>>]

Init ==
    /\ file \in InitialDocs
    /\ lastOp = NoOp
    /\ appended = <<>>
    /\ nops = 0
    /\ dir = NoDir
    /\ reviews = <<>>
    /\ rev = Idle
    /\ period = Idle

Next ==
    \/ AppendToLog
    \/ GenerateSummaryIfMissing
    \/ SaveSummaryToFile

Spec == Init /\ [][Next]_vars

SpecLog == Init /\ [][AppendToLogAgain]_vars

-----------------------------------------------------------------------------
(* The date range of a review, computed as ReviewWeek and ReviewMonth do. *)

Years == (2018..(2018 + YearSpan)) \cup {1900, 2000, 2100}

Weeks == (-1)..MaxWeek

MonthInputs == { MonthNames[m] : m \in 1..12 } \cup { "february", "Feb", "" }

PeriodInputs ==
    { [pc |-> "start", kind |-> "week", week |-> w, month |-> "", year |-> y,
       date |-> 0, start |-> 0, end |-> 0, err |-> "", steps |-> 0] :
        w \in Weeks, y \in Years }
    \cup
    { [pc |-> "start", kind |-> "month", week |-> 0, month |-> m, year |-> y,
       date |-> 0, start |-> 0, end |-> 0, err |-> "", steps |-> 0] :
        m \in MonthInputs, y \in Years }

\* dateInTargetWeek := time.Date(year, time.January, 4, ...)
WeekStart ==
    /\ period.pc = "start" /\ period.kind = "week"
    /\ period' = [period EXCEPT !.date = WeekProbe(period.year), !.pc = "forward"]
    /\ UNCHANGED <<docVars, nops, reviewVars>>

\* one test of the first loop, and its body
WeekForwardStep ==
    /\ period.pc = "forward"
    /\ period' = IF WeekBehind(period.date, period.week, period.year)
                 THEN [period EXCEPT !.date = AddDate(period.date, 0, 0, 7),
                                     !.steps = period.steps + 1]
                 ELSE [period EXCEPT !.pc = "backward"]
    /\ UNCHANGED <<docVars, nops, reviewVars>>

\* one test of the second loop, and its body
WeekBackwardStep ==
    /\ period.pc = "backward"
    /\ period' = IF WeekAhead(period.date, period.week, period.year)
                 THEN [period EXCEPT !.date = AddDate(period.date, 0, 0, -7),
                                     !.steps = period.steps + 1]
                 ELSE [period EXCEPT !.start = period.date, !.pc = "monday"]
    /\ UNCHANGED <<docVars, nops, reviewVars>>

\* one test of the third loop, and its body; endDate once it ends
WeekMondayStep ==
    /\ period.pc = "monday"
    /\ period' = IF ~IsWeekStart(period.start)
                 THEN [period EXCEPT !.start = AddDate(period.start, 0, 0, -1),
                                     !.steps = period.steps + 1]
                 ELSE [period EXCEPT !.end = WeekEnd(period.start), !.pc = "done"]
    /\ UNCHANGED <<docVars, nops, reviewVars>>

MonthRangeStep ==
    /\ period.pc = "start" /\ period.kind = "month"
    /\ LET r == MonthRange(period.month, period.year)
       IN  period' = [period EXCEPT !.start = r.start, !.end = r.end,
                                    !.err = r.err, !.pc = "done"]
    /\ UNCHANGED <<docVars, nops, reviewVars>>

InitPeriod ==
    /\ period \in PeriodInputs
    /\ file = ""
    /\ lastOp = NoOp
    /\ appended = <<>>
    /\ nops = 0
    /\ dir = NoDir
    /\ reviews = <<>>
    /\ rev = Idle

NextPeriod ==
    \/ WeekStart
    \/ WeekForwardStep
    \/ WeekBackwardStep
    \/ WeekMondayStep
    \/ MonthRangeStep

SpecPeriod == InitPeriod /\ [][NextPeriod]_vars

-----------------------------------------------------------------------------
(* Reviews over a journal directory. *)

\* days around the ends of week 1 of 2026, of December 2025 and of 2025
FileDates ==
    { Date(2024, 12, 31), Date(2025, 1, 1), Date(2025, 11, 30),
      Date(2025, 12, 1), Date(2025, 12, 28), Date(2025, 12, 29), Date(2025, 12, 31),
      Date(2026, 1, 1), Date(2026, 1, 4), Date(2026, 1, 5) }

\* daily documents: a summary of two lines under a comment, and no summary
DailyDocs ==
    { "# Day\n<!-- c -->\nwet\ndry\n\n# LOG\n09:00 tea\n",
      "# Day\n\n# LOG\n09:00 tea\n" }

Dirs ==
    UNION { { [layout |-> l,
               files |-> [n \in { DailyNames[l][t] : t \in D } |->
                             c[CHOOSE t \in D : DailyNames[l][t] = n]]] :
                l \in Layouts, c \in [D -> DailyDocs] } :
            D \in { X \in SUBSET FileDates : Cardinality(X) <= MaxFiles } }

ReviewSummarizers ==
    { [present |-> FALSE, fails |-> FALSE, summary |-> "", cause |-> ""],
      [present |-> TRUE, fails |-> TRUE, summary |-> "", cause |-> "agent down"],
      [present |-> TRUE, fails |-> FALSE, summary |-> " calm ", cause |-> ""] }

\* the standard input is read only when there is no summarizer
ReviewReaders(summarizer) ==
    IF summarizer.present THEN { r \in Readers : ~r.ok } ELSE Readers

\* week 1 of 2026, and a week 53 that 2025 does not have
ReviewWeeks == { <<1, 2026>>, <<53, 2025>> }
\* a month, and two names that are not the full name of a month
ReviewMonths == { <<"December", 2025>>, <<"Dec", 2025>>, <<"december", 2025>> }
ReviewYears == { 2025 }

\* review files an earlier run left in the directory
OldReview == "# Old\nkept\n\n## Daily Summaries\n\n"
OldReviews ==
    { <<>>,
      [p \in { "review_week_2026_1.md", "review_month_December_2025.md",
               "review_month_Dec_2025.md", "review_month_december_2025.md",
               "review_year_2025.md" } |-> OldReview] }

\* what a review leaves: its record (the arguments, the review files there
\* were before, the result, the calls made), and the review file it wrote
Reviewed(op, week, month, year, summarizer, reader, r) ==
    /\ rev' = [op |-> op, week |-> week, month |-> month, year |-> year,
               summarizer |-> summarizer, reader |-> reader, before |-> reviews,
               err |-> r.err, path |-> r.path, ai |-> r.ai, reads |-> r.reads]
    /\ reviews' = [p \in DOMAIN reviews \cup {r.path} |->
                      IF p = r.path THEN r.content ELSE reviews[p]]
    /\ nops' = nops + 1
    /\ UNCHANGED <<docVars, dir, period>>

ReviewWeek ==
    /\ nops < MaxReviews
    /\ \E in \in ReviewWeeks, summarizer \in ReviewSummarizers :
         \E reader \in ReviewReaders(summarizer) :
            Reviewed("week", in[1], "", in[2], summarizer, reader,
                     ReviewWeekFile(dir.layout, dir.files, in[1], in[2], summarizer, reader))

ReviewMonth ==
    /\ nops < MaxReviews
    /\ \E in \in ReviewMonths, summarizer \in ReviewSummarizers :
         \E reader \in ReviewReaders(summarizer) :
            IF MonthRange(in[1], in[2]).err # ""
            THEN /\ rev' = [op |-> "month", week |-> 0, month |-> in[1], year |-> in[2],
                            summarizer |-> summarizer, reader |-> reader,
                            before |-> reviews,
                            err |-> MonthRange(in[1], in[2]).err, path |-> "",
                            ai |-> <<>>, reads |-> 0]
                 /\ nops' = nops + 1
                 /\ UNCHANGED <<docVars, dir, reviews, period>>
            ELSE Reviewed("month", 0, in[1], in[2], summarizer, reader,
                          ReviewMonthFile(dir.layout, dir.files, in[1], in[2], summarizer, reader))

ReviewYear ==
    /\ nops < MaxReviews
    /\ \E year \in ReviewYears, summarizer \in ReviewSummarizers :
         \E reader \in ReviewReaders(summarizer) :
            Reviewed("year", 0, "", year, summarizer, reader,
                     ReviewYearFile(dir.layout, dir.files, year, summarizer, reader))

\* a directory of at most one daily file may hold review files of an earlier run
InitReview ==
    /\ dir \in Dirs
    /\ reviews \in (IF Cardinality(DOMAIN dir.files) <= 1 THEN OldReviews ELSE {<<>>})
    /\ rev = Idle
    /\ nops = 0
    /\ file = ""
    /\ lastOp = NoOp
    /\ appended = <<>>
    /\ period = Idle

NextReview ==
    \/ ReviewWeek
    \/ ReviewMonth
    \/ ReviewYear

SpecReview == InitReview /\ [][NextReview]_vars

-----------------------------------------------------------------------------
(* Claims about the document operations. *)

\* the last operation wrote a summary into the file
Injected ==
    \/ lastOp.op = "save"
    \/ /\ lastOp.op = "generate"
       /\ lastOp.err = ""
       /\ \/ lastOp.ai # <<>>
          \/ lastOp.reads = 1 /\ TrimSpace(lastOp.arg) # ""

\* a summary that is, once trimmed, one line that is neither a heading nor a comment
OneLineText(s) ==
    LET t == TrimSpace(s)
    IN  Index(t, "\n") = -1 /\ ~HasPrefix(t, "#") /\ ~HasPrefix(t, "<!--")

\* C1 as stated: whatever summary S is injected into a document without a
\* summary, ExtractSummary then returns trim(S).
C1_RoundTripAnySummary ==
    (Injected /\ ExtractSummary(lastOp.pre) = "")
        => ExtractSummary(file) = TrimSpace(lastOp.arg)

\* C1, amended: when a summary S whose trimmed text is a single line that starts
\* with neither "#" nor "<!--" is injected into a document from which
\* ExtractSummary returned the empty string, ExtractSummary on the result
\* returns exactly trim(S).
C1_RoundTrip ==
    (Injected /\ ExtractSummary(lastOp.pre) = "" /\ OneLineText(lastOp.arg))
        => ExtractSummary(file) = TrimSpace(lastOp.arg)

C1_Witness ==
    /\ Injected
    /\ ExtractSummary(lastOp.pre) = ""
    /\ lastOp.arg = " calm "
    /\ ExtractSummary(file) = "calm"
    /\ Index(lastOp.pre, "## Notes") # -1
    /\ Index(lastOp.pre, "# LOG") # -1

\* C2: GenerateSummaryIfMissing on a document that already has a summary (one
\* ExtractSummary returns) leaves the file as it was, and neither calls the
\* summarizer nor reads the manual input.
C2_SkipIfPresent ==
    (lastOp.op = "generate" /\ ExtractSummary(lastOp.pre) # "")
        => (file = lastOp.pre /\ lastOp.ai = <<>> /\ lastOp.reads = 0)

\* 1-based positions of the lines of content that start with "# LOG"
LogHeadings(content) ==
    LET lines == Split(content)
    IN  { i \in 1..Len(lines) : HasPrefix(lines[i], "# LOG") }

\* C3: the entries appended in a row to a document with a LOG heading are, in
\* the order of the calls, consecutive lines below that heading (the first one,
\* if several lines start with "# LOG"), with no line (blank or not) between
\* two of them.
C3_EntriesInOrder ==
    appended # <<>> =>
        LET lines == Split(file)
            n == Len(appended)
        IN  /\ LogHeadings(file) # {}
            /\ \E i \in 1..Len(lines) :
                 /\ \E h \in LogHeadings(file) : h < i
                 /\ i + n - 1 <= Len(lines)
                 /\ SubSeq(lines, i, i + n - 1) = appended

C3_Witness ==
    /\ Len(appended) = 3
    /\ appended[1] = "14:30 tea"
    /\ appended[2] = "07:05 nap"
    /\ Index(file, " ran ") # -1

\* C4: AppendToLog on a document none of whose lines starts with "# LOG" fails
\* with "LOG chapter not found" and leaves the file as it was.
C4_NoLogHeading ==
    (lastOp.op = "append" /\ LogHeadings(lastOp.pre) = {})
        => (lastOp.err = ErrLogNotFound /\ file = lastOp.pre)

C4_Witness ==
    /\ lastOp.op = "append"
    /\ LogHeadings(lastOp.pre) = {}
    /\ Index(lastOp.pre, "# One-line note") # -1
    /\ lastOp.err = ErrLogNotFound

-----------------------------------------------------------------------------
(* Claims about the date ranges. *)

\* the first Thursday of a year: ISO 8601 puts it in week 1
FirstThursday(year) ==
    CHOOSE t \in Date(year, 1, 1)..Date(year, 1, 7) : Weekday(t) = Thursday

\* the Monday of ISO week `week` of `year`
ISOWeekMonday(year, week) == FirstThursday(year) - 3 + 7 * (week - 1)

\* the number of ISO weeks of a year: 52 or 53
WeeksInYear(year) == (FirstThursday(year + 1) - FirstThursday(year)) \div 7

WeekDone == period.pc = "done" /\ period.kind = "week"

\* C8: for every requested (week, year) the range is the Monday to
\* Sunday of the ISO week whose ISO year and week are the requested ones.
C8_AnyWeekIsISOWeek ==
    WeekDone =>
        /\ ISOWeek(period.start) = <<period.year, period.week>>
        /\ ISOWeek(period.end) = <<period.year, period.week>>
        /\ Weekday(period.start) = Monday
        /\ period.end = period.start + 6

\* Where the week asked for is one the year has (1 to 52 or 53), the range of
\* ReviewWeek is the Monday to Sunday of that ISO week: week 1 of 2026 starts
\* on 2025-12-29.
ValidWeekIsISOWeek ==
    (WeekDone /\ period.week >= 1 /\ period.week <= WeeksInYear(period.year)) =>
        /\ period.start = ISOWeekMonday(period.year, period.week)
        /\ period.end = period.start + 6
        /\ ISOWeek(period.start) = <<period.year, period.week>>
        /\ ISOWeek(period.end) = <<period.year, period.week>>
        /\ Weekday(period.start) = Monday
        /\ Weekday(period.end) = 0

\* the range the steps end with is the one WeekRange gives
WeekRangeAgrees ==
    WeekDone =>
        /\ WeekRange(period.week, period.year).start = period.start
        /\ WeekRange(period.week, period.year).end = period.end

\* C9: for every (week, year) the computation of the range ends, with a start
\* that is a Monday and an end six days after it.  It ends: the three loops
\* together run their bodies at most 60 times (steps counts them), and until
\* the range is there a next step can be taken.
C9_WeekRangeEnds ==
    period.kind = "week" =>
        /\ period.steps <= 60
        /\ period.pc # "done" => ENABLED NextPeriod
        /\ period.pc = "done" =>
              /\ Weekday(period.start) = Monday
              /\ period.end = period.start + 6

\* a week number no year has
C9_Witness ==
    /\ WeekDone
    /\ period.week = 55
    /\ Weekday(period.start) = Monday
    /\ period.end = period.start + 6

\* the days of a month
DaysIn(m, year) ==
    IF m = 2 THEN (IF IsLeap(year) THEN 29 ELSE 28)
    ELSE IF m \in {4, 6, 9, 11} THEN 30 ELSE 31

\* C10: for every full month name and every year, the range of ReviewMonth
\* starts on day 1 of that month and ends on its last day.
C10_MonthRange ==
    (period.pc = "done" /\ period.kind = "month" /\ MonthNum(period.month) # 0) =>
        LET m == CHOOSE k \in 1..12 : MonthNames[k] = period.month
        IN  /\ period.err = ""
            /\ <<Year(period.start), Month(period.start), Day(period.start)>>
                 = <<period.year, m, 1>>
            /\ <<Year(period.end), Month(period.end), Day(period.end)>>
                 = <<period.year, m, DaysIn(m, period.year)>>
            /\ period.end - period.start = DaysIn(m, period.year) - 1

C10_Witness ==
    /\ period.pc = "done"
    /\ period.month = "February" /\ period.year = 2024
    /\ FormatDate(period.start) = "2024-02-01"
    /\ FormatDate(period.end) = "2024-02-29"

-----------------------------------------------------------------------------
(* Claims about the reviews. *)

ReviewDone == rev.op \in {"week", "month", "year"} /\ rev.err = ""

\* the days of the period of the last review: of a week, the range that
\* ReviewWeek computes for it (the Monday to Sunday of the ISO week, where the
\* year has that week); of a month and of a year, their calendar days
PeriodDays ==
    IF rev.op = "week"
    THEN WeekRange(rev.week, rev.year).start..WeekRange(rev.week, rev.year).end
    ELSE IF rev.op = "month"
    THEN LET m == CHOOSE k \in 1..12 : MonthNames[k] = rev.month
         IN  Date(rev.year, m, 1)..(Date(rev.year, m, 1) + DaysIn(m, rev.year) - 1)
    ELSE Date(rev.year, 1, 1)..(Date(rev.year + 1, 1, 1) - 1)

\* the days whose daily file the directory holds
DirDates == { t \in FileDates : DailyNames[dir.layout][t] \in DOMAIN dir.files }

\* the days of the period that have a daily file
Entries == DirDates \cap PeriodDays

RECURSIVE Ascending(_)
Ascending(S) ==
    IF S = {} THEN <<>>
    ELSE LET m == CHOOSE x \in S : \A y \in S : x <= y
         IN  <<m>> \o Ascending(S \ {m})

RECURSIVE Flatten(_)
Flatten(seqs) == IF seqs = <<>> THEN <<>> ELSE Head(seqs) \o Flatten(Tail(seqs))

\* the date a review shows for a day, and the summary of that day's file
DateShown(t) == TrimSuffix(DailyNames[dir.layout][t], ".md")
SummaryOf(t) == ExtractSummary(dir.files[DailyNames[dir.layout][t]])

ReviewLines == Split(reviews[rev.path])

\* the lines after the only line `heading` of lines
LinesAfter(lines, heading) ==
    LET at == { i \in 1..Len(lines) : lines[i] = heading }
    IN  IF Cardinality(at) # 1 THEN <<"no such line, or more than one">>
        ELSE SubSeq(lines, (CHOOSE i \in at : TRUE) + 1, Len(lines))

Sentinel ==
    "No journal entries found for this " \o rev.op \o "."

ReviewTitle ==
    IF rev.op = "week"
    THEN "# Weekly Review - Week " \o Itoa(rev.week) \o ", " \o Itoa(rev.year)
    ELSE IF rev.op = "month"
    THEN "# Monthly Review - " \o rev.month \o " " \o Itoa(rev.year)
    ELSE "# Yearly Review - " \o Itoa(rev.year)

\* C6: a review of a period that has no daily file holds, after its title and
\* its summary if it has one, the sentinel line and nothing else, and neither
\* the heading "## Daily Summaries" nor the heading "## Monthly Summaries".
C6_EmptyPeriod ==
    (ReviewDone /\ Entries = {}) =>
        \E lines \in {ReviewLines} :
        \E written \in {SelectSeq(lines, LAMBDA l : TrimSpace(l) # "")} :
            /\ \A i \in 1..Len(lines) :
                  /\ ~HasPrefix(lines[i], "## Daily Summaries")
                  /\ ~HasPrefix(lines[i], "## Monthly Summaries")
            /\ Len(written) \in {2, 3}
            /\ written[1] = ReviewTitle
            /\ written[Len(written)] = Sentinel
            /\ Len(written) = 3 => written[2] = "calm"

\* a week without files in a directory that has files, the review with a summary
C6_Witness ==
    /\ ReviewDone /\ rev.op = "week"
    /\ Entries = {} /\ DirDates # {}
    /\ rev.ai # <<>>
    /\ rev.week = 1
    /\ reviews[rev.path]
         = "# Weekly Review - Week 1, 2026\ncalm\n\nNo journal entries found for this week.\n\n"

\* what C7 has a yearly review hold after "## Monthly Summaries" when the
\* entries it lists are those of the days S: a block for each month that has a
\* day in S, the months in calendar order, the days of a month in ascending order
MonthBlocks(S) ==
    LET months == Ascending({ Month(t) : t \in S })
        block(m) ==
            LET days == Ascending({ t \in S : Month(t) = m })
            IN  <<"### " \o MonthNames[m], "">>
                \o [i \in 1..Len(days) |->
                      "- **" \o DateShown(days[i]) \o "**: " \o SummaryOf(days[i])]
                \o <<"">>
    IN  <<"">> \o Flatten([i \in 1..Len(months) |-> block(months[i])]) \o <<"">>

\* C7: a yearly review of a year that has daily files groups its entries by
\* month under "## Monthly Summaries": a month sub-heading only for a month
\* that has an entry, the months in calendar order, and under each month one
\* line per entry in ascending order of date.  With daily files named by the
\* layout 2006-01-02 the entries are all the days of the year that have a file.
C7_MonthlySummaries ==
    (ReviewDone /\ rev.op = "year" /\ Entries # {}) =>
        \E after \in {LinesAfter(ReviewLines, "## Monthly Summaries")} :
        \E S \in SUBSET Entries :
            /\ dir.layout = DefaultLayout => S = Entries
            /\ after = MonthBlocks(S)

\* a year with a file in January and two in December
C7_Witness ==
    /\ ReviewDone /\ rev.op = "year"
    /\ dir.layout = DefaultLayout
    /\ Entries = {Date(2025, 1, 1), Date(2025, 12, 1), Date(2025, 12, 31)}
    /\ Index(reviews[rev.path], "### January\n\n- **2025-01-01**: ") # -1

-----------------------------------------------------------------------------
(* Claims about the text handed to the summarizer. *)

\* 1-based numbers of the lines inside the One-line note section: those below
\* its heading and above the next heading line
RECURSIVE SectionBody(_, _, _)
SectionBody(lines, i, inside) ==
    IF i > Len(lines) THEN {}
    ELSE IF HasPrefix(TrimSpace(lines[i]), "# One-line note")
    THEN SectionBody(lines, i + 1, TRUE)
    ELSE IF HasPrefix(TrimSpace(lines[i]), "#") THEN SectionBody(lines, i + 1, FALSE)
    ELSE (IF inside THEN {i} ELSE {}) \cup SectionBody(lines, i + 1, inside)

\* the lines outside the One-line note section, in order
RECURSIVE Without(_, _, _)
Without(lines, K, i) ==
    IF i > Len(lines) THEN <<>>
    ELSE (IF i \in K THEN <<>> ELSE <<lines[i]>>) \o Without(lines, K, i + 1)
OutsideSection(content) ==
    Without(Split(content), SectionBody(Split(content), 2, FALSE), 1)

\* C19: the text handed to the summarizer holds nothing of the One-line note
\* section: a file that differs from the summarized one only by the lines
\* inside that section has the same text handed to the summarizer.
C19_NoOneLineNoteSent ==
    (lastOp.op = "generate" /\ lastOp.ai # <<>>) =>
        \A other \in InitialDocs :
            OutsideSection(other) = OutsideSection(lastOp.pre)
                => ContentToSummarize(Split(other)) = lastOp.ai[1]

-----------------------------------------------------------------------------
(* The specification of summary extraction: ExtractSummary read off a daily
   file of a few lines. *)

MaxLines == 4

ExtractLines ==
    { "",
      "<!-- c -->",
      "# One-line note",
      "# LOG",
      "## Notes",
      " ran ",
      "wet" }

ExtractDocs ==
    { Join(<<Title>> \o body, "\n") :
        body \in UNION { [1..n -> ExtractLines] : n \in 0..MaxLines } }

\* ExtractSummary called on the file; the file is only read
ExtractSummaryOp ==
    /\ lastOp.op = "none"
    /\ lastOp' = [op |-> "extract", pre |-> file, out |-> ExtractSummary(file)]
    /\ UNCHANGED <<file, appended, nops, dir, reviews, rev, period>>

InitExtract ==
    /\ file \in ExtractDocs
    /\ lastOp = NoOp
    /\ appended = <<>>
    /\ nops = 0
    /\ dir = NoDir
    /\ reviews = <<>>
    /\ rev = Idle
    /\ period = Idle

NextExtract == ExtractSummaryOp

SpecExtract == InitExtract /\ [][NextExtract]_vars

-----------------------------------------------------------------------------
(* Claims about summary extraction. *)

Extracted == lastOp.op = "extract"

\* the line is the heading of the LOG or of the One-line note section
IsSectionHeading(line) ==
    HasPrefix(TrimSpace(line), "# LOG") \/ HasPrefix(TrimSpace(line), "# One-line note")

\* 1-based numbers of the section headings below the title, and the first
SectionHeadings(lines) == { i \in 2..Len(lines) : IsSectionHeading(lines[i]) }
FirstSectionHeading(lines) ==
    IF SectionHeadings(lines) = {} THEN Len(lines) + 1
    ELSE CHOOSE i \in SectionHeadings(lines) : \A j \in SectionHeadings(lines) : i <= j

\* the line can be part of a summary: not blank, not a comment
IsText(line) == TrimSpace(line) # "" /\ ~HasPrefix(TrimSpace(line), "<!--")
IsHeading(line) == HasPrefix(TrimSpace(line), "#")

\* the trimmed lines numbered in K, in order, joined by single spaces
RECURSIVE TrimmedFrom(_, _, _)
TrimmedFrom(lines, K, i) ==
    IF i > Len(lines) THEN <<>>
    ELSE (IF i \in K THEN <<TrimSpace(lines[i])>> ELSE <<>>) \o TrimmedFrom(lines, K, i + 1)
JoinTrimmed(lines, K) == Join(TrimmedFrom(lines, K, 1), " ")

CaptureStart(lines) ==
    LET S == { i \in 2..(FirstSectionHeading(lines) - 1) :
                 IsText(lines[i]) /\ ~IsHeading(lines[i]) }
    IN  IF S = {} THEN 0 ELSE CHOOSE i \in S : \A j \in S : i <= j

\* the numbers of the heading lines
Headings(lines) == { i \in 1..Len(lines) : IsHeading(lines[i]) }

\* the first number of S that is at least from, Len(lines) + 1 when none
FirstFrom(lines, from, S) ==
    LET T == { i \in S : i >= from }
    IN  IF T = {} THEN Len(lines) + 1 ELSE CHOOSE i \in T : \A j \in T : i <= j

\* C13: once capture has started, any heading line ends the summary region:
\* the summary is made of lines from the start of capture up to, and not
\* including, the first heading line below it, so that no heading line and no
\* line below such a heading is in it.
C13_HeadingEndsCapture ==
    Extracted =>
        \E lines \in {Split(lastOp.pre)} :
          \E start \in {CaptureStart(lines)} :
            IF start = 0 THEN lastOp.out = ""
            ELSE \E K \in SUBSET (start..(FirstFrom(lines, start, Headings(lines)) - 1)) :
                    lastOp.out = JoinTrimmed(lines, K)

\* the numbers of the lines that end a paragraph: blank lines, section headings
ParagraphEnds(lines) ==
    { i \in 1..Len(lines) : TrimSpace(lines[i]) = "" \/ IsSectionHeading(lines[i]) }

\* C14: ExtractSummary returns the first paragraph below the title and nothing
\* else: the empty lines, comment lines and sub-headings above the paragraph
\* are skipped, the paragraph runs to the first empty line (or section
\* heading) below its first line, its lines other than comments are trimmed
\* and joined by single spaces, and no line of a later paragraph is returned.
C14_FirstParagraph ==
    Extracted =>
        \E lines \in {Split(lastOp.pre)} :
          \E start \in {CaptureStart(lines)} :
            IF start = 0 THEN lastOp.out = ""
            ELSE lastOp.out =
                    JoinTrimmed(lines, { i \in start..(FirstFrom(lines, start, ParagraphEnds(lines)) - 1) :
                                            IsText(lines[i]) })

\* a paragraph of two lines is joined, the paragraph below it is left out
C14_Witness ==
    /\ Extracted
    /\ lastOp.pre = "# Oct 26\n ran \nwet\n\nwet"
    /\ lastOp.out = "ran wet"

-----------------------------------------------------------------------------
(* Claims about the injection of a summary. *)

\* the last operation wrote a summary into the file: the summarizer answered,
\* or a person typed a line that is not blank
InjectedNow ==
    \/ lastOp.op = "save"
    \/ /\ lastOp.op = "generate" /\ lastOp.err = ""
       /\ lastOp.ai # <<>> \/ (lastOp.reads > 0 /\ TrimSpace(lastOp.arg) # "")

\* the lines from the first one numbered at least from that is not blank
RECURSIVE DropBlank(_, _)
DropBlank(lines, from) ==
    IF from > Len(lines) THEN <<>>
    ELSE IF TrimSpace(lines[from]) = "" THEN DropBlank(lines, from + 1)
    ELSE SubSeq(lines, from, Len(lines))

\* C15: the injection keeps the title line as it was, keeps an HTML comment on
\* the line below it as it was, writes the trimmed summary and one blank line
\* right below them, and then the rest of the file as it was but for the blank
\* lines at its top; every LOG or One-line note heading of the file is below
\* the summary.
C15_InjectionFrame ==
    InjectedNow =>
        \E old \in {Split(lastOp.pre)}, new \in {Split(file)},
           summary \in {Split(TrimSpace(lastOp.arg))} :
          \E head \in {IF Len(old) > 1 /\ HasPrefix(TrimSpace(old[2]), "<!--")
                       THEN SubSeq(old, 1, 2) ELSE SubSeq(old, 1, 1)} :
            /\ new = head \o summary \o <<"">>
                       \o (IF DropBlank(old, Len(head) + 1) = <<>> THEN <<"">>
                           ELSE DropBlank(old, Len(head) + 1))
            /\ \A i \in 2..Len(old) : IsSectionHeading(old[i]) =>
                  \E j \in (Len(head) + Len(summary) + 1)..Len(new) : new[j] = old[i]
            /\ \A j \in 1..(Len(head) + Len(summary)) :
                  IsSectionHeading(new[j]) => j = 1

\* a summary generated into a file with a comment, a blank line and the LOG
C15_Witness ==
    /\ lastOp.op = "generate"
    /\ lastOp.pre = "# Oct 26\n<!-- c -->\n\n# LOG"
    /\ lastOp.arg = " calm "
    /\ file = "# Oct 26\n<!-- c -->\ncalm\n\n# LOG"

\* saveSummaryToFile was called twice in a row
SavedTwice == lastOp.op = "save" /\ lastOp.prev.op = "save"

\* C16: saveSummaryToFile called twice in a row writes two summary paragraphs:
\* below the title (and the comment) stands the second summary, a blank line,
\* the first summary, a blank line, and then the rest of the first file; the
\* second call does not leave the file as the first call left it.
C16_TwoParagraphs ==
    SavedTwice =>
        \E old \in {Split(lastOp.prev.pre)}, new \in {Split(file)},
           first \in {Split(TrimSpace(lastOp.prev.arg))},
           second \in {Split(TrimSpace(lastOp.arg))} :
          \E head \in {IF Len(old) > 1 /\ HasPrefix(TrimSpace(old[2]), "<!--")
                       THEN SubSeq(old, 1, 2) ELSE SubSeq(old, 1, 1)} :
            /\ new = head \o second \o <<"">> \o first \o <<"">>
                       \o (IF DropBlank(old, Len(head) + 1) = <<>> THEN <<"">>
                           ELSE DropBlank(old, Len(head) + 1))
            /\ file # lastOp.pre

\* the same summary saved twice stands twice above the LOG heading
C16_Witness ==
    /\ SavedTwice
    /\ lastOp.prev.pre = "# Oct 26\n\n# LOG"
    /\ lastOp.prev.arg = " calm " /\ lastOp.arg = " calm "
    /\ file = "# Oct 26\ncalm\n\ncalm\n\n# LOG"

-----------------------------------------------------------------------------
(* Claims about the place of a log entry. *)

\* C25: AppendToLog puts the entry inside the LOG region, which runs from the
\* LOG heading to the next heading line or the end of the file: the entry
\* stands below the LOG heading, above the next heading line, and below the
\* last line of the region that is not empty.
C25_EntryInLogRegion ==
    (lastOp.op = "append" /\ lastOp.err = "") =>
        \E old \in {Split(lastOp.pre)}, new \in {Split(file)} :
          \E h \in { CHOOSE i \in LogHeadings(lastOp.pre) :
                        \A j \in LogHeadings(lastOp.pre) : i <= j } :
            \E regionEnd \in { FirstFrom(old, h + 1, Headings(old)) } :
              \E p \in (h + 1)..regionEnd :
                 /\ SubSeq(new, 1, p) = SubSeq(old, 1, p - 1) \o <<lastOp.arg>>
                 /\ \A j \in p..(regionEnd - 1) : TrimSpace(old[j]) = ""

-----------------------------------------------------------------------------
(* Claims about the decision that a summary is missing. *)

\* C26: GenerateSummaryIfMissing goes on to get a summary (it calls the
\* summarizer, or reads the manual input) exactly when ExtractSummary returns
\* the empty string for the content of the file.
C26_MissingAgreesWithExtract ==
    lastOp.op = "generate" =>
        ((lastOp.ai # <<>> \/ lastOp.reads > 0) <=> ExtractSummary(lastOp.pre) = "")

-----------------------------------------------------------------------------
(* The specification of the one-line notes: GetPastSummaries over a journal
   directory. *)

MaxPast == 2

\* the last of a month of 31 days after a month of 28, and a day of the first
\* week of a year
Targets == { Date(2026, 3, 31), Date(2027, 1, 8) }

\* the days the directory may have a file of: those GetPastSummaries looks
\* at, and the day before the target
PastFileDates ==
    UNION { { PastDates(t)[i] : i \in 1..6 } \cup { t - 1 } : t \in Targets }

\* daily files: with a summary, with a log only, empty, with a title only
PastDocs ==
    { "# Day\nwet\ndry\n\n# LOG\n09:00 tea\n",
      "# Day\n\n# LOG\n09:00 tea\n",
      "",
      "# Day\n" }

PastNames == [l \in Layouts |-> [t \in PastFileDates |-> Format(l, t) \o ".md"]]

PastDirs ==
    UNION { { [layout |-> l,
               files |-> [n \in { PastNames[l][t] : t \in D } |->
                             c[CHOOSE t \in D : PastNames[l][t] = n]]] :
                 l \in Layouts, c \in [D -> PastDocs] } :
            D \in { X \in SUBSET PastFileDates : Cardinality(X) <= MaxPast } }

\* cfg.AISummarizer: none, one that fails, one that answers, one that answers nothing
PastSummarizers ==
    ReviewSummarizers \cup { [present |-> TRUE, fails |-> FALSE, summary |-> "", cause |-> ""] }

\* GetPastSummaries called once; before: the files there were
GetPastSummariesOp ==
    /\ lastOp.op = "none"
    /\ \E targetDate \in Targets, summarizer \in PastSummarizers :
         \E r \in { GetPastSummaries(dir.layout, dir.files, targetDate, summarizer) } :
            /\ lastOp' = [op |-> "past", targetDate |-> targetDate,
                          summarizer |-> summarizer, before |-> dir.files,
                          summaries |-> r.summaries, ai |-> r.ai]
            /\ dir' = [dir EXCEPT !.files = r.files]
    /\ UNCHANGED <<file, appended, nops, reviews, rev, period>>

InitPast ==
    /\ dir \in PastDirs
    /\ lastOp = NoOp
    /\ file = ""
    /\ appended = <<>>
    /\ nops = 0
    /\ reviews = <<>>
    /\ rev = Idle
    /\ period = Idle

NextPast == GetPastSummariesOp

SpecPast == InitPast /\ [][NextPast]_vars

-----------------------------------------------------------------------------
(* Claims about the one-line notes. *)

PastDone == lastOp.op = "past"

\* the six dates before the target date, written out
DatesBefore(targetDate) ==
    IF targetDate = Date(2026, 3, 31)
    THEN { Date(2026, 3, 24), Date(2026, 3, 3), Date(2025, 10, 1),
           Date(2025, 3, 31), Date(2024, 3, 31), Date(2023, 3, 31) }
    ELSE { Date(2027, 1, 1), Date(2026, 12, 8), Date(2026, 7, 8),
           Date(2026, 1, 8), Date(2025, 1, 8), Date(2024, 1, 8) }

-----------------------------------------------------------------------------
(* The specification of the log command over a journal directory. *)

MaxCmdFiles == 2
MaxCmds == 1

\* what the file of the day may hold when the command starts: the template
\* with an entry, the same with a summary, a file with notes below the log
\* that ends with an empty line, a file without the LOG heading, a file
\* without the One-line note heading
TodayDocs ==
    { DailyTemplate(Date(2026, 3, 31)) \o "\n09:00 tea\n",
      "# Day\nwet\ndry\n\n# One-line note\n* [[2020-01-01]]: old\n\n# LOG\n09:00 tea\n",
      "# Day\n\n# One-line note\n\n# LOG\n09:00 tea\n\n## Notes\nran\n\n",
      "# Day\n\n# One-line note\n\n## Notes\n",
      "# Day\n\n# LOG\n09:00 tea\n" }

CmdFileDates == PastFileDates \cup Targets

CmdNames == [l \in Layouts |-> [t \in CmdFileDates |-> Format(l, t) \o ".md"]]

\* the directories: files of the days of the commands, and of days before them
CmdDirs ==
    UNION { { [layout |-> l,
               files |-> [n \in { CmdNames[l][t] : t \in D } |->
                             c[CHOOSE t \in D : CmdNames[l][t] = n]]] :
                 l \in Layouts,
                 c \in { x \in [D -> PastDocs \cup TodayDocs] :
                           \A t \in D : IF t \in Targets THEN x[t] \in TodayDocs
                                        ELSE x[t] \in PastDocs } } :
            D \in { X \in SUBSET CmdFileDates : Cardinality(X) <= MaxCmdFiles } }

\* `logbook log tea`, at 14:30 of a day; before: the files there were
LogCmd ==
    /\ nops < MaxCmds
    /\ \E now \in Targets, summarizer \in PastSummarizers :
         \E r \in { LogCommand(dir.layout, dir.files, now, <<14, 30>>, "tea", summarizer) } :
            /\ lastOp' = [op |-> "log", now |-> now, summarizer |-> summarizer,
                          before |-> dir.files, err |-> r.err, step |-> r.step,
                          path |-> r.path, created |-> r.created,
                          logged |-> r.logged, ai |-> r.ai]
            /\ dir' = [dir EXCEPT !.files = r.files]
    /\ nops' = nops + 1
    /\ UNCHANGED <<file, appended, reviews, rev, period>>

InitCmd ==
    /\ dir \in CmdDirs
    /\ lastOp = NoOp
    /\ file = ""
    /\ appended = <<>>
    /\ nops = 0
    /\ reviews = <<>>
    /\ rev = Idle
    /\ period = Idle

NextCmd == LogCmd

SpecCmd == InitCmd /\ [][NextCmd]_vars

-----------------------------------------------------------------------------
(* The specification of CreateDailyJournalFile, called again and again. *)

MaxCreates == 2

\* CreateDailyJournalFile for a day; before: the files there were, first: the
\* files there were before the first call
CreateDaily ==
    /\ nops < MaxCreates
    /\ \E date \in Targets :
         \E r \in { CreateDailyJournalFile(dir.layout, dir.files, date) } :
            /\ lastOp' = [op |-> "create", date |-> date, before |-> dir.files,
                          first |-> IF lastOp.op = "none" THEN dir.files ELSE lastOp.first,
                          err |-> "", path |-> r.path, created |-> r.created]
            /\ dir' = [dir EXCEPT !.files = r.files]
    /\ nops' = nops + 1
    /\ UNCHANGED <<file, appended, reviews, rev, period>>

NextCreate == CreateDaily

SpecCreate == InitCmd /\ [][NextCreate]_vars

-----------------------------------------------------------------------------
(* The specification of the log entries and one-line notes of a daily file:
   AppendToLog and EmbedOneLineNotes, one after the other, on one file. *)

MaxNoteOps == 2

\* the maps GetPastSummaries may hand over: summaries of past days, "missing",
\* and a summary as ExtractSummary returns it for a paragraph that a heading
\* follows with no empty line between
NoteSummaries ==
    { [k \in {"2026-03-24", "2025-03-31"} |->
          IF k = "2026-03-24" THEN "wet dry" ELSE "missing"],
      [k \in {"2026-03-24"} |-> "calm"],
      [k \in {"2026-03-24"} |-> "ran ## Notes"] }

\* what an operation leaves in lastOp; first: the file before the first
\* operation, prev: the operation before this one
NoteOp(op, arg, err) ==
    [op |-> op, pre |-> file, arg |-> arg, err |-> err,
     first |-> IF lastOp.op = "none" THEN file ELSE lastOp.first,
     prev |-> IF lastOp.op = "none" THEN [op |-> "none"]
              ELSE [op |-> lastOp.op, arg |-> lastOp.arg, err |-> lastOp.err]]

NoteAppend ==
    /\ nops < MaxNoteOps
    /\ \E in \in LogInputs :
         \E r \in { AppendToLogFile(file, in[1], in[2]) } :
            /\ file' = r.content
            /\ lastOp' = NoteOp("append", RenderLogEntry(in[1], in[2]), r.err)
    /\ nops' = nops + 1
    /\ UNCHANGED <<appended, dir, reviews, rev, period>>

NoteEmbed ==
    /\ nops < MaxNoteOps
    /\ \E summaries \in NoteSummaries :
         \E r \in { EmbedOneLineNotes("today.md", file, summaries) } :
            /\ file' = r.content
            /\ lastOp' = NoteOp("embed", summaries, r.err)
    /\ nops' = nops + 1
    /\ UNCHANGED <<appended, dir, reviews, rev, period>>

NextNotes == NoteAppend \/ NoteEmbed

\* daily files whose sections are sub-headings, as the template of
\* pkg/journal/journal_test.go has them
SubHeadingDocs ==
    { Title \o "\n\n## LOG\n\n## One-line note\n",
      Title \o "\n\nran\n\n## LOG\n09:00 tea\n\n## One-line note\n- old\n" }

NoteDocs == InitialDocs \cup SubHeadingDocs

InitNotes ==
    /\ file \in NoteDocs
    /\ lastOp = NoOp
    /\ appended = <<>>
    /\ nops = 0
    /\ dir = NoDir
    /\ reviews = <<>>
    /\ rev = Idle
    /\ period = Idle

SpecNotes == InitNotes /\ [][NextNotes]_vars

-----------------------------------------------------------------------------
(* Claims about the log command. *)

\* C21: the log command (the daily file created or got, the entry appended,
\* the one-line notes embedded) never calls the summarizer.
C21_LogNeverSummarizes ==
    lastOp.op = "log" => lastOp.ai = <<>>

\* the log command got past AppendToLog
Logged == lastOp.op = "log" /\ (lastOp.step = "finalize" \/ lastOp.err = "")

\* C23: the file AppendToLog has written ends with exactly one newline: its
\* last byte is a newline and the byte before it is not.
C23_OneTrailingNewline ==
    Logged => (HasSuffix(lastOp.logged, "\n") /\ ~HasSuffix(lastOp.logged, "\n\n"))

\* C24: CreateDailyJournalFile for a day whose daily file exists returns the
\* path of that file, without error, and leaves the directory as it was; and
\* after any number of calls every file that was there before the first call
\* holds what it held then.
C24_CreateOrGet ==
    lastOp.op = "create" =>
        \E name \in { Format(dir.layout, lastOp.date) \o ".md" } :
            /\ lastOp.err = "" /\ lastOp.path = name
            /\ name \in DOMAIN dir.files
            /\ name \in DOMAIN lastOp.before =>
                  (~lastOp.created /\ dir.files = lastOp.before)
            /\ \A n \in DOMAIN lastOp.first :
                  n \in DOMAIN dir.files /\ dir.files[n] = lastOp.first[n]

\* the second call for a day whose file held a log entry before the first
C24_Witness ==
    /\ lastOp.op = "create" /\ nops = 2
    /\ lastOp.date = Date(2026, 3, 31) /\ ~lastOp.created
    /\ lastOp.path = "31.03.2026.md"
    /\ lastOp.path \in DOMAIN lastOp.first
    /\ dir.files[lastOp.path] = "# Day\n\n# LOG\n09:00 tea\n"

-----------------------------------------------------------------------------
(* Claims about the log entries and one-line notes of a daily file. *)

NoteDone == lastOp.op \in {"append", "embed"} /\ "first" \in DOMAIN lastOp

\* C27: after AppendToLog and EmbedOneLineNotes, in any order, the first line
\* of the file is the one it was before them, and ExtractSummary returns what
\* it returned before them.
C27_TitleAndSummaryKept ==
    NoteDone =>
        /\ Split(file)[1] = Split(lastOp.first)[1]
        /\ ExtractSummary(file) = ExtractSummary(lastOp.first)

\* the line that holds the heading of the One-line note section: the first
\* that ends with the heading and has a line end behind it, 0 when none does
NoteHeadingLine(lines) ==
    LET at == { i \in 1..(Len(lines) - 1) :
                  /\ Len(lines[i]) >= Len("# One-line note")
                  /\ SubSeq(lines[i], Len(lines[i]) - Len("# One-line note") + 1,
                            Len(lines[i])) = "# One-line note" }
    IN  IF at = {} THEN 0 ELSE CHOOSE i \in at : \A j \in at : i <= j

\* the first heading below the heading of the section, one past the last
\* line when there is none
NoteSectionEnd(lines) ==
    LET at == { i \in (NoteHeadingLine(lines) + 1)..Len(lines) :
                  HasPrefix(TrimSpace(lines[i]), "#") }
    IN  IF at = {} THEN Len(lines) + 1 ELSE CHOOSE i \in at : \A j \in at : i <= j

\* the lines of the section that are not empty
NoteLines(lines) ==
    SelectSeq(SubSeq(lines, NoteHeadingLine(lines) + 1, NoteSectionEnd(lines) - 1),
              LAMBDA l : l # "")

\* the lines down to the heading of the section, and those from the next
\* heading on
AroundNotes(lines) ==
    <<SubSeq(lines, 1, NoteHeadingLine(lines)),
      SubSeq(lines, NoteSectionEnd(lines), Len(lines))>>

Embedded == NoteDone /\ lastOp.op = "embed"

\* C28: EmbedOneLineNotes on a file without the heading of the section fails
\* and leaves the file as it was; on a file with the heading, the section then
\* holds one bullet line for each key of the summaries and nothing else, the
\* lines around the section are the ones from before, and a second run with
\* the same summaries leaves the file as the first run left it.
C28_NotesReplaced ==
    Embedded =>
        IF NoteHeadingLine(Split(lastOp.pre)) = 0
        THEN lastOp.err # "" /\ file = lastOp.pre
        ELSE /\ lastOp.err = ""
             /\ LET notes == NoteLines(Split(file))
                IN  /\ Len(notes) = Cardinality(DOMAIN lastOp.arg)
                    /\ \A key \in DOMAIN lastOp.arg :
                         \E i \in 1..Len(notes) :
                            notes[i] = "* [[" \o key \o "]]: " \o lastOp.arg[key]
             /\ AroundNotes(Split(file)) = AroundNotes(Split(lastOp.pre))
             /\ (lastOp.prev.op = "embed" /\ lastOp.prev.arg = lastOp.arg)
                    => file = lastOp.pre

-----------------------------------------------------------------------------
(* Claims about the errors of the reviews. *)

FullMonthNames == { MonthNames[m] : m \in 1..12 }

\* C11: ReviewMonth with a month name that is not, letter for letter, one of
\* the twelve full English month names fails with the invalid-month error, and
\* no review file is created or changed: the review files are those there
\* were before, with the content they had.
C11_InvalidMonth ==
    (rev.op = "month" /\ rev.month \notin FullMonthNames) =>
        /\ rev.err = ErrMonth(rev.month)
        /\ reviews = rev.before

\* "december" is refused although review files of an earlier run are there
C11_Witness ==
    /\ rev.op = "month" /\ rev.month = "december"
    /\ rev.err = ErrMonth("december")
    /\ "review_month_december_2025.md" \in DOMAIN reviews
    /\ reviews["review_month_december_2025.md"] = OldReview

\* the summary of the last review could not be had: no summarizer and a
\* failing read of the manual line, or a summarizer that returns an error
SummaryFails ==
    /\ rev.op \in {"week", "month", "year"}
    /\ rev.op = "month" => rev.month \in FullMonthNames
    /\ \/ ~rev.summarizer.present /\ ~rev.reader.ok
       \/ rev.summarizer.present /\ rev.summarizer.fails

\* C17: when there is no summarizer and the read of the manual summary fails,
\* or when the summarizer returns an error, the review returns an error that
\* wraps that of the summary generation, and the review file holds neither a
\* "## Daily Summaries" or "## Monthly Summaries" heading nor the sentinel.
C17_SummaryError ==
    SummaryFails =>
        /\ HasPrefix(rev.err, "failed to generate summary for ")
        /\ HasSuffix(rev.err, IF rev.summarizer.present THEN ErrAI(rev.summarizer.cause)
                              ELSE ErrManual(rev.reader.cause))
        /\ \A i \in 1..Len(ReviewLines) :
              /\ ReviewLines[i] \notin {"## Daily Summaries", "## Monthly Summaries"}
              /\ ~HasPrefix(ReviewLines[i], "No journal entries found")

\* a failing summarizer: the weekly review of an earlier run, which had a
\* "## Daily Summaries" heading, is replaced by the title alone
C17_Witness ==
    /\ SummaryFails /\ rev.op = "week" /\ rev.week = 1 /\ rev.summarizer.present
    /\ rev.before # <<>>
    /\ rev.before[rev.path] = OldReview
    /\ reviews[rev.path] = "# Weekly Review - Week 1, 2026\n\n"
    /\ rev.err = "failed to generate summary for weekly review: "
                 \o "failed to generate summary with AI: agent down"

-----------------------------------------------------------------------------
(* Claims about the summary of a review. *)

\* C20: with a summarizer, a review that succeeds has called the summarizer
\* once, with a text that is the daily summaries of the period put together:
\* the summary of every daily file of the period is in that text.
C20_SummarizerReadsDailySummaries ==
    (ReviewDone /\ rev.summarizer.present) =>
        /\ Len(rev.ai) = 1
        /\ \A t \in Entries : Index(rev.ai[1], SummaryOf(t)) # -1

-----------------------------------------------------------------------------
(* Claims about the days a review lists. *)

\* C29: a review that fails because the summary could not be made (the read
\* of the manual summary failed, or the summarizer returned an error) leaves a
\* review file that was at the path of the review before the run as it was.
C29_FailedRunKeepsReview ==
    (/\ SummaryFails
     /\ HasPrefix(rev.err, "failed to generate summary for ")
     /\ rev.path \in DOMAIN rev.before)
        => reviews[rev.path] = rev.before[rev.path]

\* C22: a review has no entry for a day whose daily file has no summary:
\* neither a sub-heading "### date" nor a line "- **date**: ..." of that day.
C22_NoEntryWithoutSummary ==
    ReviewDone =>
        \E lines \in {ReviewLines} :
            \A t \in Entries : SummaryOf(t) = "" =>
                \A i \in 1..Len(lines) :
                    /\ lines[i] # "### " \o DateShown(t)
                    /\ ~HasPrefix(lines[i], "- **" \o DateShown(t) \o "**")


\* the month sub-heading a line of a review stands under: the nearest line
\* "### ..." above the i-th line, "" when there is none
MonthHeadingAbove(lines, i) ==
    LET at == { j \in 1..(i - 1) : HasPrefix(lines[j], "### ") }
    IN  IF at = {} THEN "" ELSE lines[CHOOSE j \in at : \A k \in at : k <= j]

\* C30: a yearly review of a year that has daily files has, below "## Monthly
\* Summaries", at least one month sub-heading, and for each daily file of the
\* year exactly one line "- **date**: ...", which stands under the sub-heading
\* of the month of that day; this with any layout of the names of the files.
C30_EveryDayOfTheYear ==
    (ReviewDone /\ rev.op = "year" /\ Entries # {}) =>
        \E after \in {LinesAfter(ReviewLines, "## Monthly Summaries")} :
            /\ \E i \in 1..Len(after) : HasPrefix(after[i], "### ")
            /\ \A t \in Entries :
                 \E at \in {{ i \in 1..Len(after) :
                               HasPrefix(after[i], "- **" \o DateShown(t) \o "**: ") }} :
                    /\ Cardinality(at) = 1
                    /\ \A i \in at :
                         MonthHeadingAbove(after, i) = "### " \o MonthNames[Month(t)]

=============================================================================
